---- MODULE Spec2Model ----
(***************************************************************************)
(* Model of the Climate Action Intelligence Platform: the Impact Ledger    *)
(* (src/backend/data_processors/impact_tracker.py, class ImpactTracker),   *)
(* the knowledge index and answer generation of the main application       *)
(* (src/backend/rag_system/climate_rag.py, src/backend/watsonx_integration *)
(* /watsonx_client.py) and the knowledge index of the documentation        *)
(* assistant (src/climate-rag-app/backend/rag_system.py).                  *)
(*                                                                         *)
(* Units.  Every REAL of the program is a whole number of thousandths      *)
(* here (1500 stands for 1.5): quantities, impacts and aggregates.  The    *)
(* factor table is kept in tenths (5 stands for 0.5), the precision of     *)
(* its literals.  round(x, n) rounds to the nearest, ties to even, on the  *)
(* exact decimal value; the program rounds the binary double nearest to    *)
(* that value, which can fall on the other side of an exact decimal tie.   *)
(*                                                                         *)
(* Time.  The clock counts ticks of half a day of UTC.  SQLite's           *)
(* CURRENT_TIMESTAMP stores UTC; Python's datetime.now() is the local      *)
(* wall clock, tzOffset ticks away from UTC.                               *)
(***************************************************************************)
EXTENDS Integers, Sequences, FiniteSets, TLC

(***************************************************************************)
(* Bounds of the model.                                                    *)
(***************************************************************************)
MaxCalls == 2
MaxClock == 2
MaxGoals == 1
MaxRacingCalls == 3
MaxChunks == 7
MaxOutputLen == 2
ReadmeChunks == 6
MaxAppChunks == 18
MaxRetrieved == 4

(***************************************************************************)
(* Scale of the clock.                                                     *)
(***************************************************************************)
TicksPerDay == 2
TicksPerMonth == 4

Procs == {1, 2}
Users == {"u1", "u2"}
TZOffsets == {-1, 0, 1}
PeriodDays == {0, 1}
\* The (action_type, quantity) pairs tracked where calls follow one another.
TrackInputs ==
  { <<"led_bulb_replacement", 3000>>, <<"bike_trip", 3000>> }
\* The pairs tracked where calls overlap.
RacingInputs == { <<"led_bulb_replacement", 3000>> }
\* The quantities of SpecOneCall, in thousandths.
CalcQuantities == {-3000, 0, 250, 1000, 1234, 3000}
GoalTargets == {0, 100000}
\* The current and target values of the goal rows the progress expression
\* is applied to, in thousandths.
ProgressCurrents == { 250 * k : k \in 0..5 } \cup { 1000, 2000, 33333, 150000 }
ProgressTargets == { 0, 1, 3000, 7000, 100000 } \cup { 1000 * k : k \in 1..6 }

(***************************************************************************)
(* ImpactTracker.impact_factors, in tenths of a kg CO2.                    *)
(***************************************************************************)
impact_factors ==
  [ led_bulb_replacement |-> 5,
    thermostat_adjustment |-> 3,
    car_trip_avoided |-> 4,
    public_transport_use |-> -3,
    bike_trip |-> -4,
    solar_panel_kwh |-> -4,
    energy_efficient_appliance |-> 20,
    tree_planted |-> -220,
    composting |-> -5,
    meat_free_meal |-> -9,
    local_food_purchase |-> -2,
    water_conservation |-> 1,
    recycling |-> -3,
    renewable_energy_switch |-> -36,
    insulation_upgrade |-> -23,
    electric_vehicle |-> -24000 ]

(***************************************************************************)
(* The characters of the action types the model uses: the program tests    *)
(* them with Python's substring operator.  rainwater_harvesting and        *)
(* dance_party are not keys of impact_factors.                             *)
(***************************************************************************)
Spelling ==
  [ led_bulb_replacement |-> <<"l","e","d","_","b","u","l","b","_","r","e","p","l","a","c","e","m","e","n","t">>,
    thermostat_adjustment |-> <<"t","h","e","r","m","o","s","t","a","t","_","a","d","j","u","s","t","m","e","n","t">>,
    car_trip_avoided |-> <<"c","a","r","_","t","r","i","p","_","a","v","o","i","d","e","d">>,
    public_transport_use |-> <<"p","u","b","l","i","c","_","t","r","a","n","s","p","o","r","t","_","u","s","e">>,
    bike_trip |-> <<"b","i","k","e","_","t","r","i","p">>,
    solar_panel_kwh |-> <<"s","o","l","a","r","_","p","a","n","e","l","_","k","w","h">>,
    energy_efficient_appliance |-> <<"e","n","e","r","g","y","_","e","f","f","i","c","i","e","n","t","_","a","p","p","l","i","a","n","c","e">>,
    tree_planted |-> <<"t","r","e","e","_","p","l","a","n","t","e","d">>,
    composting |-> <<"c","o","m","p","o","s","t","i","n","g">>,
    meat_free_meal |-> <<"m","e","a","t","_","f","r","e","e","_","m","e","a","l">>,
    local_food_purchase |-> <<"l","o","c","a","l","_","f","o","o","d","_","p","u","r","c","h","a","s","e">>,
    water_conservation |-> <<"w","a","t","e","r","_","c","o","n","s","e","r","v","a","t","i","o","n">>,
    recycling |-> <<"r","e","c","y","c","l","i","n","g">>,
    renewable_energy_switch |-> <<"r","e","n","e","w","a","b","l","e","_","e","n","e","r","g","y","_","s","w","i","t","c","h">>,
    insulation_upgrade |-> <<"i","n","s","u","l","a","t","i","o","n","_","u","p","g","r","a","d","e">>,
    electric_vehicle |-> <<"e","l","e","c","t","r","i","c","_","v","e","h","i","c","l","e">>,
    rainwater_harvesting |-> <<"r","a","i","n","w","a","t","e","r","_","h","a","r","v","e","s","t","i","n","g">>,
    dance_party |-> <<"d","a","n","c","e","_","p","a","r","t","y">> ]

AllActionTypes == DOMAIN Spelling

\* Python's  kw in action_type  on strings.
Contains(kw, a) ==
  LET s == Spelling[a] IN
  \E i \in 0..(Len(s) - Len(kw)) : SubSeq(s, i + 1, i + Len(kw)) = kw

\* A magnitude that would keep the sign.
AbsSigned(x) == x

\* abs().
Abs(x) == IF x < 0 THEN -x ELSE x

\* round(): n/d rounded to the nearest integer, ties to the even one (d > 0).
RoundHalfEven(n, d) ==
  LET q == n \div d
      r == n % d
  IN  IF 2 * r < d THEN q
      ELSE IF 2 * r > d THEN q + 1
      ELSE IF q % 2 = 0 THEN q ELSE q + 1

\* A lookup that would default to a factor of 1.0 for a type outside the table.
BaseFactorDefaultOne(a) ==
  IF a \in DOMAIN impact_factors THEN impact_factors[a] ELSE 10

\* self.impact_factors.get(action_type, 0.0), in tenths.
BaseFactor(a) ==
  IF a \in DOMAIN impact_factors THEN impact_factors[a] ELSE 0

\* A flat impact per action, whatever the quantity.
Co2ProductFlat(a, q) == BaseFactor(a) * 1000

\* co2_impact = base_factor * quantity, in ten-thousandths (tenths * thousandths).
Co2Product(a, q) == BaseFactor(a) * q

\* ImpactTracker._calculate_impact: the four impacts, in thousandths.
CalculateImpact(a, q) ==
  LET co2 == Co2Product(a, q)
      energy == IF \/ Contains(<<"e","n","e","r","g","y">>, a)
                   \/ Contains(<<"s","o","l","a","r">>, a)
                   \/ Contains(<<"l","e","d">>, a)
                THEN Abs(co2) * 25 ELSE 0
      water == IF \/ Contains(<<"w","a","t","e","r">>, a)
                  \/ Contains(<<"c","o","n","s","e","r","v","a","t","i","o","n">>, a)
               THEN q * 10 ELSE 0
      waste == IF \/ Contains(<<"r","e","c","y","c","l","i","n","g">>, a)
                  \/ Contains(<<"c","o","m","p","o","s","t","i","n","g">>, a)
               THEN q * 5 ELSE 0
  IN  [ co2_impact    |-> RoundHalfEven(co2, 10),
        energy_impact |-> RoundHalfEven(energy, 100),
        water_impact  |-> RoundHalfEven(water, 1),
        waste_impact  |-> RoundHalfEven(waste, 10) ]

\* The keys of the impact dict, in the order impact.items() yields them.
MetricOrder == <<"co2_impact", "energy_impact", "water_impact", "waste_impact">>
MetricTypes == {MetricOrder[i] : i \in 1..Len(MetricOrder)}

(***************************************************************************)
(* State of the ledger.  The three tables of the SQLite database, the      *)
(* clocks, and for every session thread (the threads call the tracker on   *)
(* the same db_path) its position in track_action.                         *)
(***************************************************************************)
VARIABLES
  actions,        \* table actions: sequence of rows, row i has id i
  user_metrics,   \* table user_metrics: sequence of rows, row i has id i
  goals,          \* table goals: sequence of rows, row i has id i
  clock,          \* UTC time, in ticks
  tzOffset,       \* local time minus UTC, in ticks (fixed by the host)
  pc,             \* pc[p]: where thread p is in track_action
  args,           \* args[p]: user_id, action_type, quantity of p's call
  impact,         \* impact[p]: the local variable impact of p's call
  action_id,      \* action_id[p]: cursor.lastrowid of p's insert (0: none)
  existing,       \* existing[p]: what p's first SELECT on user_metrics read
  result,         \* result[p]: "ok" (the result dict) or "error" ({'error': ..})
  logged,         \* logged[p]: the logger.error lines of p's call
  calls,          \* number of track_action calls started
  summary,        \* what get_user_impact_summary returned, if it was the last step
  goalsProgress,  \* what get_user_goals_progress returned, if it was the last step
  metricsBefore,  \* user_metrics when the calls now in flight began
  callsInFlight   \* number of calls begun since metricsBefore was taken

(***************************************************************************)
(* State of the knowledge index of the main application (one               *)
(* ClimateRAGSystem object and the directory CHROMA_PERSIST_DIRECTORY).    *)
(***************************************************************************)
VARIABLES
  persistDir,     \* os.path.exists(settings.CHROMA_PERSIST_DIRECTORY)
  collection,     \* the chunks persisted in that directory, in order of insertion
  vectorstore,    \* self.vectorstore: "None" or "Chroma" (a store on the directory)
  use_fallback,   \* WatsonXClient.use_fallback
  model,          \* WatsonXClient.model: "None" or "ModelInference"
  ragResult,      \* the last call on the object: operation, arguments, outcome
  generation      \* the last generate_response: mode, model outcome, text returned

(***************************************************************************)
(* State of the documentation assistant: the directory persist_directory   *)
(* and, for every Streamlit session, its own ClimateRAGSystem object.      *)
(***************************************************************************)
VARIABLES
  appFile,        \* os.path.exists(persist_directory/chroma.sqlite3)
  appCollection,  \* the documents persisted in the collection, in order of insertion
  readme,         \* os.path.exists(readme_path)
  appStore,       \* appStore[p]: self.vectorstore of session p, "None" or "Chroma"
  appRetriever,   \* appRetriever[p]: self.retriever, NoRetriever or its search_kwargs
  appPc,          \* appPc[p]: where session p is in initialize_vectorstore
  appArgs,        \* appArgs[p]: documents and force_rebuild of p's call
  appResult,      \* the last call that returned: session, operation, outcome
  forced          \* some call was made with force_rebuild

ledgerVars == << actions, user_metrics, goals, clock, tzOffset, pc, args, impact,
                 action_id, existing, result, logged, calls, summary, goalsProgress,
                 metricsBefore, callsInFlight >>
indexVars == << persistDir, collection, vectorstore, use_fallback, model, ragResult,
                generation >>
appVars == << appFile, appCollection, readme, appStore, appRetriever, appPc,
              appArgs, appResult, forced >>
knowledgeVars == << indexVars, appVars >>

vars == << ledgerVars, knowledgeVars >>

dbVars == << actions, user_metrics, goals >>
procVars == << pc, args, impact, action_id, existing, result, logged >>
historyVars == << metricsBefore, callsInFlight >>

NoArgs == [user_id |-> "", action_type |-> "", quantity |-> 0]
NoImpact == [co2_impact |-> 0, energy_impact |-> 0, water_impact |-> 0, waste_impact |-> 0]
NoRow == [metric_type |-> "", id |-> 0, value |-> 0, period |-> 0]
NoSummary == [user_id |-> ""]
NoProgress == [user_id |-> ""]

\* A text: one of the fixed texts of the program (kind and name say which;
\* query is the query an f-string text quotes) or a string of characters.
NoText == [kind |-> "none", name |-> "", query |-> {}, chars |-> << >>]
NoIndexState == [persistDir |-> FALSE, collection |-> << >>, vectorstore |-> "None",
                 logged |-> {}]
NoRagResult ==
  [ op |-> "none", documents |-> << >>, query |-> {}, before |-> NoIndexState,
    raised |-> FALSE, logged |-> {}, answer |-> NoText, docs |-> {} ]
NoContext == [nonempty |-> FALSE, california |-> FALSE]
NoGeneration ==
  [ mode |-> "none", raised |-> FALSE, output |-> << >>, prompt |-> {},
    context |-> NoContext, returned |-> NoText ]
NoRetriever == [k |-> 0, fetch_k |-> 0]
NoAppArgs == [documents |-> << >>, force_rebuild |-> FALSE, exists |-> FALSE]
NoComposed == [header |-> "", blurb |-> FALSE, quotes |-> << >>]
NoAppResult ==
  [ op |-> "none", proc |-> 0, raised |-> FALSE, error |-> "", k |-> 0, n |-> 0,
    docs |-> {}, query |-> {}, retrieved |-> << >>, answer |-> NoComposed ]

\* datetime.now(): the local wall clock.
LocalNow == clock + tzOffset

\* The calendar month of a local time: period_start and period_end are its
\* first and last day.
MonthOf(t) == t \div TicksPerMonth

LedgerInit ==
  /\ actions = << >>
  /\ user_metrics = << >>
  /\ goals = << >>
  /\ clock = 0
  /\ tzOffset \in TZOffsets
  /\ pc = [p \in Procs |-> "idle"]
  /\ args = [p \in Procs |-> NoArgs]
  /\ impact = [p \in Procs |-> NoImpact]
  /\ action_id = [p \in Procs |-> 0]
  /\ existing = [p \in Procs |-> NoRow]
  /\ result = [p \in Procs |-> "none"]
  /\ logged = [p \in Procs |-> {}]
  /\ calls = 0
  /\ summary = NoSummary
  /\ goalsProgress = NoProgress
  /\ metricsBefore = << >>
  /\ callsInFlight = 0

\* The knowledge index before the application is first started, and the
\* documentation assistant before its first session.
IndexInit ==
  /\ persistDir = FALSE
  /\ collection = << >>
  /\ vectorstore = "None"
  /\ use_fallback = TRUE
  /\ model = "None"
  /\ ragResult = NoRagResult
  /\ generation = NoGeneration

AppInit ==
  /\ appFile = FALSE
  /\ appCollection = << >>
  /\ appStore = [p \in Procs |-> "None"]
  /\ appRetriever = [p \in Procs |-> NoRetriever]
  /\ appPc = [p \in Procs |-> "idle"]
  /\ appArgs = [p \in Procs |-> NoAppArgs]
  /\ appResult = NoAppResult
  /\ forced = FALSE

Init == LedgerInit /\ IndexInit /\ AppInit /\ readme = TRUE

\* A query's answer is on hand only in the state right after the query.
NoAnswer == summary' = NoSummary /\ goalsProgress' = NoProgress

InFlight(p) == pc[p] \in {"select", "write"}

\* An insert that would replace the last stored row instead of appending.
InsertRowOverwriteLast(table, row) ==
  IF table = << >> THEN << row >>
  ELSE [table EXCEPT ![Len(table)] = [row EXCEPT !.id = Len(table)]]

\* INSERT INTO <table> ...: the new row gets the next AUTOINCREMENT id.
InsertRow(table, row) == Append(table, row)

\* The row track_action inserts; timestamp is the column default
\* CURRENT_TIMESTAMP (UTC), verified the column default FALSE.
ActionRow(id, a, imp) ==
  [ id |-> id, user_id |-> a.user_id, action_type |-> a.action_type,
    quantity |-> a.quantity,
    co2_impact |-> imp.co2_impact, energy_impact |-> imp.energy_impact,
    water_impact |-> imp.water_impact, waste_impact |-> imp.waste_impact,
    timestamp |-> clock, verified |-> FALSE ]

(***************************************************************************)
(* track_action up to the commit of its INSERT INTO actions: the call,     *)
(* _calculate_impact (which touches no shared state) and the insert.       *)
(***************************************************************************)
TrackAction(p, u, a, q) ==
  /\ pc[p] = "idle"
  /\ calls' = calls + 1
  /\ LET arg == [user_id |-> u, action_type |-> a, quantity |-> q]
         imp == CalculateImpact(a, q)
     IN  /\ args' = [args EXCEPT ![p] = arg]
         /\ impact' = [impact EXCEPT ![p] = imp]
         /\ actions' = InsertRow(actions, ActionRow(Len(actions) + 1, arg, imp))
  /\ action_id' = [action_id EXCEPT ![p] = Len(actions) + 1]
  /\ pc' = [pc EXCEPT ![p] = "select"]
  /\ IF \E o \in Procs : InFlight(o)
       THEN /\ callsInFlight' = callsInFlight + 1
            /\ UNCHANGED metricsBefore
       ELSE /\ callsInFlight' = 1
            /\ metricsBefore' = user_metrics
  /\ NoAnswer
  /\ UNCHANGED << user_metrics, goals, clock, tzOffset, existing, result, logged >>
  /\ UNCHANGED knowledgeVars

\* A track_action that fails after its insert was committed.
TrackActionFailsAfterInsert(p, u, a, q) ==
  /\ pc[p] = "idle"
  /\ calls' = calls + 1
  /\ LET arg == [user_id |-> u, action_type |-> a, quantity |-> q]
         imp == CalculateImpact(a, q)
     IN  /\ args' = [args EXCEPT ![p] = arg]
         /\ impact' = [impact EXCEPT ![p] = imp]
         /\ actions' = InsertRow(actions, ActionRow(Len(actions) + 1, arg, imp))
  /\ pc' = [pc EXCEPT ![p] = "done"]
  /\ result' = [result EXCEPT ![p] = "error"]
  /\ logged' = [logged EXCEPT ![p] = @ \cup {"Error tracking action"}]
  /\ NoAnswer
  /\ UNCHANGED << user_metrics, goals, clock, tzOffset, action_id, existing, historyVars >>
  /\ UNCHANGED knowledgeVars

\* The insert raises (disk full, database locked, ...): the with block
\* rolls back, the except clause of track_action logs and returns {'error'}.
TrackActionFails(p, u, a, q) ==
  /\ pc[p] = "idle"
  /\ calls' = calls + 1
  /\ args' = [args EXCEPT ![p] = [user_id |-> u, action_type |-> a, quantity |-> q]]
  /\ impact' = [impact EXCEPT ![p] = CalculateImpact(a, q)]
  /\ pc' = [pc EXCEPT ![p] = "done"]
  /\ result' = [result EXCEPT ![p] = "error"]
  /\ logged' = [logged EXCEPT ![p] = @ \cup {"Error tracking action"}]
  /\ NoAnswer
  /\ UNCHANGED << dbVars, clock, tzOffset, action_id, existing, historyVars >>
  /\ UNCHANGED knowledgeVars

(***************************************************************************)
(* _update_user_metrics.                                                   *)
(***************************************************************************)
\* A lookup of the aggregate row that would not look at the user.
MatchingMetricsAnyUser(table, u, m, per) ==
  { i \in 1..Len(table) : /\ table[i].metric_type = m
                          /\ table[i].period = per }

\* SELECT id, value FROM user_metrics WHERE user_id = ? AND metric_type = ?
\* AND period_start = ? AND period_end = ?  followed by fetchone(): the
\* matching row of lowest id, NoRow for None.
MatchingMetrics(table, u, m, per) ==
  { i \in 1..Len(table) : /\ table[i].user_id = u
                          /\ table[i].metric_type = m
                          /\ table[i].period = per }

Min(S) == CHOOSE x \in S : \A y \in S : x <= y

SelectMetric(table, u, m, per) ==
  LET S == MatchingMetrics(table, u, m, per) IN
  IF S = {} THEN [NoRow EXCEPT !.metric_type = m, !.period = per]
  ELSE [metric_type |-> m, id |-> Min(S), value |-> table[Min(S)].value, period |-> per]

\* The metrics with value != 0, in the order of the loop.
NonZeroMetrics(imp) ==
  SelectSeq(MetricOrder, LAMBDA m : imp[m] # 0)

\* One turn of the loop once the row was read: UPDATE ... SET value = ?
\* WHERE id = ?, or INSERT INTO user_metrics.
WriteMetric(table, u, m, v, ex) ==
  IF ex.id # 0
    THEN [table EXCEPT ![ex.id].value = ex.value + v]
    ELSE InsertRow(table, [id |-> Len(table) + 1, user_id |-> u, metric_type |-> m,
                           value |-> v, period |-> ex.period])

\* The loop from its i-th non-zero metric on.  The first SELECT ran before
\* the connection held the write lock (sqlite3 opens the transaction at the
\* first INSERT/UPDATE), so `first` may be stale; the later SELECTs run
\* inside the write transaction and read the table as it then is.
RECURSIVE UpdateLoop(_, _, _, _, _)
UpdateLoop(table, u, imp, first, i) ==
  LET ms == NonZeroMetrics(imp) IN
  IF i > Len(ms) THEN table
  ELSE LET m  == ms[i]
           ex == IF i = 1 THEN first ELSE SelectMetric(table, u, m, first.period)
       IN  UpdateLoop(WriteMetric(table, u, m, imp[m], ex), u, imp, first, i + 1)

\* Step 3: connect, compute the period from datetime.now(), and run the
\* first SELECT of the loop (none when every impact is 0: the loop body
\* never runs and the commit changes nothing).
UpdateSelect(p) ==
  /\ pc[p] = "select"
  /\ LET ms == NonZeroMetrics(impact[p]) IN
       IF ms = << >>
         THEN /\ pc' = [pc EXCEPT ![p] = "done"]
              /\ result' = [result EXCEPT ![p] = "ok"]
              /\ UNCHANGED existing
         ELSE /\ pc' = [pc EXCEPT ![p] = "write"]
              /\ existing' = [existing EXCEPT ![p] =
                    SelectMetric(user_metrics, args[p].user_id, ms[1], MonthOf(LocalNow))]
              /\ UNCHANGED result
  /\ NoAnswer
  /\ UNCHANGED << dbVars, clock, tzOffset, args, impact, action_id, logged,
                  calls, historyVars >>
  /\ UNCHANGED knowledgeVars

\* Step 4: the writes of the loop and the commit, one write transaction.
UpdateWrite(p) ==
  /\ pc[p] = "write"
  /\ user_metrics' = UpdateLoop(user_metrics, args[p].user_id, impact[p], existing[p], 1)
  /\ pc' = [pc EXCEPT ![p] = "done"]
  /\ result' = [result EXCEPT ![p] = "ok"]
  /\ NoAnswer
  /\ UNCHANGED << actions, goals, clock, tzOffset, args, impact, action_id,
                  existing, logged, calls, historyVars >>
  /\ UNCHANGED knowledgeVars

\* Anything in _update_user_metrics raises: the with block rolls back, the
\* except clause logs, and track_action goes on to return its result dict.
UpdateFails(p) ==
  /\ InFlight(p)
  /\ pc' = [pc EXCEPT ![p] = "done"]
  /\ result' = [result EXCEPT ![p] = "ok"]
  /\ logged' = [logged EXCEPT ![p] = @ \cup {"Error updating user metrics"}]
  /\ NoAnswer
  /\ UNCHANGED << dbVars, clock, tzOffset, args, impact, action_id, existing,
                  calls, historyVars >>
  /\ UNCHANGED knowledgeVars

\* The caller takes the result; the thread is free for its next call.
Return(p) ==
  /\ pc[p] = "done"
  /\ pc' = [pc EXCEPT ![p] = "idle"]
  /\ args' = [args EXCEPT ![p] = NoArgs]
  /\ impact' = [impact EXCEPT ![p] = NoImpact]
  /\ action_id' = [action_id EXCEPT ![p] = 0]
  /\ existing' = [existing EXCEPT ![p] = NoRow]
  /\ result' = [result EXCEPT ![p] = "none"]
  /\ logged' = [logged EXCEPT ![p] = {}]
  /\ IF \E o \in Procs \ {p} : pc[o] # "idle"
       THEN UNCHANGED historyVars
       ELSE metricsBefore' = << >> /\ callsInFlight' = 0
  /\ NoAnswer
  /\ UNCHANGED << dbVars, clock, tzOffset, calls >>
  /\ UNCHANGED knowledgeVars

\* Time passes.
Tick ==
  /\ clock < MaxClock
  /\ clock' = clock + 1
  /\ NoAnswer
  /\ UNCHANGED << dbVars, tzOffset, procVars, calls, historyVars >>
  /\ UNCHANGED knowledgeVars

(***************************************************************************)
(* get_user_impact_summary.                                                *)
(***************************************************************************)
\* start_date = datetime.now() - timedelta(days=period_days).
StartDate(d) == LocalNow - d * TicksPerDay

\* A filter that would also bound the timestamp above by the local time.
InPeriodBounded(row, u, d) ==
  row.user_id = u /\ row.timestamp >= StartDate(d) /\ row.timestamp <= LocalNow

\* A filter that would not look at the user.
InPeriodAnyUser(row, u, d) == row.timestamp >= StartDate(d)

\* WHERE user_id = ? AND timestamp >= ?  (both sides are ISO texts, which
\* compare as the times they spell).
InPeriod(row, u, d) ==
  row.user_id = u /\ row.timestamp >= StartDate(d)

SelectedActions(u, d) == { i \in 1..Len(actions) : InPeriod(actions[i], u, d) }

\* SUM(<column>) over the rows S of actions.
RECURSIVE SumColumn(_, _)
SumColumn(S, col) ==
  IF S = {} THEN 0
  ELSE LET i == CHOOSE x \in S : TRUE
       IN  actions[i][col] + SumColumn(S \ {i}, col)

\* One row of the GROUP BY action_type query, as action_data.
ActionData(S, a) ==
  LET G == { i \in S : actions[i].action_type = a } IN
  [ action_type   |-> a,
    count         |-> Cardinality(G),
    co2_impact    |-> RoundHalfEven(SumColumn(G, "co2_impact"), 1),
    energy_impact |-> RoundHalfEven(SumColumn(G, "energy_impact"), 1),
    water_impact  |-> RoundHalfEven(SumColumn(G, "water_impact"), 1),
    waste_impact  |-> RoundHalfEven(SumColumn(G, "waste_impact"), 1) ]

\* actions_summary, as the set of its entries (the program orders them by
\* total_co2, descending).
ActionsBreakdown(S) ==
  { ActionData(S, a) : a \in { actions[i].action_type : i \in S } }

\* total_impact[key] += action_data[key] over the entries.
RECURSIVE SumEntries(_, _)
SumEntries(B, key) ==
  IF B = {} THEN 0
  ELSE LET e == CHOOSE x \in B : TRUE
       IN  e[key] + SumEntries(B \ {e}, key)

\* A total that would keep its sign.
ReportedCo2Signed(total) == RoundHalfEven(total, 1)

\* The figure get_user_impact_summary reports as co2_saved_kg:
\* round(abs(total_impact['co2']), 3).
ReportedCo2(total) == RoundHalfEven(Abs(total), 1)

\* ImpactTracker._calculate_equivalents; trees_equivalent and
\* car_miles_avoided are in tenths, the other three are whole numbers.
CalculateEquivalents(co2_kg) ==
  [ trees_equivalent         |-> RoundHalfEven(Abs(co2_kg), 2200),
    car_miles_avoided        |-> RoundHalfEven(Abs(co2_kg), 40),
    lightbulb_hours          |-> RoundHalfEven(Abs(co2_kg) * 2, 1),
    smartphone_charges       |-> RoundHalfEven(Abs(co2_kg), 8),
    plastic_bottles_recycled |-> RoundHalfEven(Abs(co2_kg), 30) ]

ImpactSummary(u, d) ==
  LET S == SelectedActions(u, d)
      B == ActionsBreakdown(S)
      co2 == SumEntries(B, "co2_impact")
  IN  [ user_id |-> u,
        period_days |-> d,
        total_actions |-> Cardinality(S),
        co2_saved_kg |-> ReportedCo2(co2),
        energy_saved_kwh |-> RoundHalfEven(SumEntries(B, "energy_impact"), 1),
        water_saved_gallons |-> RoundHalfEven(SumEntries(B, "water_impact"), 1),
        waste_diverted_kg |-> RoundHalfEven(SumEntries(B, "waste_impact"), 1),
        actions_breakdown |-> B,
        equivalent_impact |-> CalculateEquivalents(co2) ]

GetUserImpactSummary(u, d) ==
  /\ summary' = ImpactSummary(u, d)
  /\ goalsProgress' = NoProgress
  /\ UNCHANGED << dbVars, clock, tzOffset, procVars, calls, historyVars >>
  /\ UNCHANGED knowledgeVars

(***************************************************************************)
(* set_user_goal and get_user_goals_progress.                              *)
(***************************************************************************)
\* set_user_goal that stores the goal with some progress made.
SetUserGoalStarted(u, target) ==
  /\ Len(goals) < MaxGoals
  /\ goals' = InsertRow(goals, [ id |-> Len(goals) + 1, user_id |-> u,
                                 goal_type |-> "co2_reduction",
                                 target_value |-> target, current_value |-> 1000,
                                 status |-> "active" ])
  /\ NoAnswer
  /\ UNCHANGED << actions, user_metrics, clock, tzOffset, procVars, calls, historyVars >>
  /\ UNCHANGED knowledgeVars

\* set_user_goal that stores the goal as completed.
SetUserGoalCompleted(u, target) ==
  /\ Len(goals) < MaxGoals
  /\ goals' = InsertRow(goals, [ id |-> Len(goals) + 1, user_id |-> u,
                                 goal_type |-> "co2_reduction",
                                 target_value |-> target, current_value |-> 0,
                                 status |-> "completed" ])
  /\ NoAnswer
  /\ UNCHANGED << actions, user_metrics, clock, tzOffset, procVars, calls, historyVars >>
  /\ UNCHANGED knowledgeVars

\* INSERT INTO goals: current_value and status take the column defaults.
SetUserGoal(u, target) ==
  /\ Len(goals) < MaxGoals
  /\ goals' = InsertRow(goals, [ id |-> Len(goals) + 1, user_id |-> u,
                                 goal_type |-> "co2_reduction",
                                 target_value |-> target, current_value |-> 0,
                                 status |-> "active" ])
  /\ NoAnswer
  /\ UNCHANGED << actions, user_metrics, clock, tzOffset, procVars, calls, historyVars >>
  /\ UNCHANGED knowledgeVars

\* progress_percentage that truncates instead of rounding.
ProgressPercentageTruncated(row) ==
  IF row.target_value > 0
    THEN (row.current_value * 1000) \div row.target_value
    ELSE 0

\* progress_percentage, in tenths of a percent.
ProgressPercentage(row) ==
  IF row.target_value > 0
    THEN RoundHalfEven(row.current_value * 1000, row.target_value)
    ELSE 0

GoalsProgress(u) ==
  [ user_id |-> u,
    goals |-> { [ goal_id |-> goals[i].id,
                  target_value |-> goals[i].target_value,
                  current_value |-> goals[i].current_value,
                  status |-> goals[i].status,
                  progress_percentage |-> ProgressPercentage(goals[i]) ]
                : i \in { j \in 1..Len(goals) :
                            goals[j].user_id = u /\ goals[j].status = "active" } } ]

GetUserGoalsProgress(u) ==
  /\ goalsProgress' = GoalsProgress(u)
  /\ summary' = NoSummary
  /\ UNCHANGED << dbVars, clock, tzOffset, procVars, calls, historyVars >>
  /\ UNCHANGED knowledgeVars

\* The body of the loop of get_user_goals_progress on one fetched row: the
\* goal dict it appends, for any current_value and target_value a row holds.
GoalDict(current, target) ==
  /\ goalsProgress' =
       [ user_id |-> "row",
         goals |-> { [ goal_id |-> 1,
                       target_value |-> target,
                       current_value |-> current,
                       status |-> "active",
                       progress_percentage |->
                         ProgressPercentage([ target_value |-> target,
                                              current_value |-> current ]) ] } ]
  /\ summary' = NoSummary
  /\ UNCHANGED << dbVars, clock, tzOffset, procVars, calls, historyVars >>
  /\ UNCHANGED knowledgeVars

(***************************************************************************)
(* Texts.  A query is the set of its lower-cased words; the program tests  *)
(* them with Python's substring operator on the lower-cased prompt.  The   *)
(* output of the external model is a string over a small alphabet: a       *)
(* letter, a full stop and a blank.                                        *)
(***************************************************************************)
Queries == { {}, {"solar"}, {"business", "energy"} }
Alphabet == {"a", ".", " "}
Whitespace == {" "}
MaxLength == 2000
ContinuationMargin == 50
ShortTail == 20

Template(kind, name) == [kind |-> kind, name |-> name, query |-> {}, chars |-> << >>]
Chars(cs) == [kind |-> "chars", name |-> "", query |-> {}, chars |-> cs]
IsEmptyText(t) == t.kind = "chars" /\ t.chars = << >>

\* An output whose last sentence has ShortTail characters.  Every output
\* of the model here is shorter than MaxLength - ContinuationMargin.
LongTail == << "a", ".", " " >> \o [i \in 1..ShortTail |-> "a"]
ModelOutputs ==
  UNION { [1..n -> Alphabet] : n \in 0..MaxOutputLen }
    \cup { << " ", " ", " " >>, << "a", ".", " ", "a" >>, LongTail }
\* What one call of model.generate_text does: it raises or returns a string.
ModelOutcomes ==
  { [raised |-> TRUE, output |-> << >>] }
    \cup { [raised |-> FALSE, output |-> cs] : cs \in ModelOutputs }
NoOutcome == [raised |-> FALSE, output |-> << >>]

Max(S) == CHOOSE x \in S : \A y \in S : y <= x

\* str.strip().
Strip(cs) ==
  LET inked == { i \in 1..Len(cs) : cs[i] \notin Whitespace }
  IN  IF inked = {} THEN << >> ELSE SubSeq(cs, Min(inked), Max(inked))

\* WatsonXClient._clean_response: the apology for no output; otherwise the
\* stripped output, without its last sentence when that sentence is shorter
\* than ShortTail characters and does not end with a full stop.
\* sentences[-1] of split('. ') is what follows the last ". ".
CleanResponse(response) ==
  IF response = << >>
    THEN Template("apology", "")
    ELSE LET cleaned == Strip(response)
             seps == { i \in 1..(Len(cleaned) - 1) :
                         cleaned[i] = "." /\ cleaned[i + 1] = " " }
         IN  IF seps = {}
               THEN Chars(cleaned)
               ELSE LET last == Max(seps)
                        tail == SubSeq(cleaned, last + 2, Len(cleaned))
                        endsWithStop == tail # << >> /\ tail[Len(tail)] = "."
                    IN  IF Len(tail) < ShortTail /\ ~endsWithStop
                          THEN Chars(SubSeq(cleaned, 1, last - 1) \o << "." >>)
                          ELSE Chars(cleaned)

\* The context retrieve_and_generate joins from the retrieved chunks: whether
\* it is a non-empty string and whether it mentions california.
ContextOf(coll, docs) ==
  [ nonempty |-> docs # {},
    california |-> \E i \in docs : coll[i].california ]
Contexts == [nonempty : BOOLEAN, california : BOOLEAN]

\* WatsonXClient._generate_fallback_response: the template chosen by the
\* context and the words of the prompt.
FallbackResponse(prompt, context) ==
  IF context.nonempty /\ context.california
    THEN Template("watsonx_fallback", "california")
  ELSE IF prompt \cap {"carbon", "footprint", "emissions", "30%"} # {}
    THEN Template("watsonx_fallback", "carbon")
  ELSE IF prompt \cap {"business", "company", "tech", "carbon neutral"} # {}
    THEN Template("watsonx_fallback", "business")
  ELSE IF prompt \cap {"renewable", "solar", "wind", "energy"} # {}
    THEN Template("watsonx_fallback", "renewable")
  ELSE Template("watsonx_fallback", "general")

\* ClimateRAGSystem._generate_fallback_response: one text that quotes the
\* query.
RagFallbackResponse(query) ==
  [kind |-> "rag_fallback", name |-> "", query |-> query, chars |-> << >>]

ContinuationNote == << "[Response continues... Ask for more details on specific aspects]" >>

\* WatsonXClient.generate_response: the record of the call.  outcome is what
\* model.generate_text does when it is called.
GenerateResponse(fallback, prompt, context, outcome) ==
  IF fallback
    THEN [ mode |-> "fallback", raised |-> FALSE, output |-> << >>,
           prompt |-> prompt, context |-> context,
           returned |-> FallbackResponse(prompt, context) ]
  ELSE IF outcome.raised
    THEN [ mode |-> "model", raised |-> TRUE, output |-> << >>,
           prompt |-> prompt, context |-> context,
           returned |-> FallbackResponse(prompt, context) ]
  ELSE LET cleaned == CleanResponse(outcome.output)
       IN  [ mode |-> "model", raised |-> FALSE, output |-> outcome.output,
             prompt |-> prompt, context |-> context,
             returned |->
               IF cleaned.kind = "chars"
                    /\ Len(cleaned.chars) >= MaxLength - ContinuationMargin
                 THEN Chars(cleaned.chars \o ContinuationNote)
                 ELSE cleaned ]

\* The outcomes the model call can have in a client: none is drawn in
\* fallback mode, where the model is not called.
OutcomesOf(fallback) == IF fallback THEN {NoOutcome} ELSE ModelOutcomes

(***************************************************************************)
(* Documents and chunks.  A document is its source, the length of its      *)
(* page_content and whether it mentions california; a chunk is a part of   *)
(* a document.                                                             *)
(***************************************************************************)
ChunkSize == 1000
ChunkOverlap == 200

\* RecursiveCharacterTextSplitter: one chunk up to chunk_size characters,
\* then one more for every chunk_size - chunk_overlap characters.
NumChunks(length) ==
  IF length <= ChunkSize
    THEN 1
    ELSE 1 + ((length - ChunkSize) + (ChunkSize - ChunkOverlap) - 1)
               \div (ChunkSize - ChunkOverlap)

ChunksOf(doc) ==
  [ i \in 1..NumChunks(doc.length) |->
      [source |-> doc.source, part |-> i, california |-> doc.california] ]

RECURSIVE SplitDocuments(_)
SplitDocuments(documents) ==
  IF documents = << >>
    THEN << >>
    ELSE ChunksOf(Head(documents)) \o SplitDocuments(Tail(documents))

\* _create_sample_climate_documents: the five documents of the built-in
\* corpus.
SampleClimateDocuments ==
  << [source |-> "IPCC_AR6_Mitigation", length |-> 802, california |-> FALSE],
     [source |-> "EPA_Carbon_Calculator", length |-> 780, california |-> FALSE],
     [source |-> "UN_Global_Compact", length |-> 965, california |-> FALSE],
     [source |-> "IEA_Energy_Finance", length |-> 897, california |-> FALSE],
     [source |-> "UNDRR_Resilience_Guide", length |-> 1077, california |-> FALSE] >>

MinimalDocs == << [source |-> "demo", part |-> 1, california |-> FALSE] >>

\* The documents callers pass: none, or one seed document.
SeedDocument == [source |-> "seed", length |-> 1500, california |-> TRUE]
DocumentLists == { << >>, << SeedDocument >> }

(***************************************************************************)
(* The knowledge index of the main application.  An index state is the     *)
(* directory, the collection persisted in it, the vectorstore attribute    *)
(* of the object and the errors the operation has logged.                  *)
(***************************************************************************)
IndexState ==
  [ persistDir |-> persistDir, collection |-> collection,
    vectorstore |-> vectorstore, logged |-> {} ]

\* _create_minimal_vectorstore: Chroma.from_documents of the demo document
\* into the persist directory, whose collection it adds to.
CreateMinimalVectorstore(st, ok) ==
  IF ok
    THEN [ st EXCEPT !.persistDir = TRUE,
                     !.collection = @ \o MinimalDocs,
                     !.vectorstore = "Chroma" ]
    ELSE [ st EXCEPT !.logged = @ \cup {"Failed to create minimal vectorstore"} ]

\* initialize_vectorstore: load when the directory exists, build otherwise;
\* ok says whether that step succeeds, okMinimal whether the minimal store
\* the except branch creates does.
InitializeVectorstoreOn(st, documents, ok, okMinimal) ==
  IF ~ok
    THEN CreateMinimalVectorstore(
           [ st EXCEPT !.logged = @ \cup {"Error initializing vectorstore"} ],
           okMinimal)
  ELSE IF st.persistDir
    THEN [ st EXCEPT !.vectorstore = "Chroma" ]
  ELSE [ st EXCEPT !.persistDir = TRUE,
                   !.collection =
                      SplitDocuments(IF documents = << >>
                                       THEN SampleClimateDocuments
                                       ELSE documents),
                   !.vectorstore = "Chroma" ]

\* "if not self.vectorstore: self.initialize_vectorstore()"
EnsureVectorstore(st, ok, okMinimal) ==
  IF st.vectorstore = "None"
    THEN InitializeVectorstoreOn(st, << >>, ok, okMinimal)
    ELSE st

\* The outcomes drawn for a lazy initialisation: none when the object has a
\* vectorstore already.
LazyOutcomes == IF vectorstore = "None" THEN BOOLEAN ELSE {TRUE}

\* What an operation leaves behind in the directory and the object.
Install(st) ==
  /\ Len(st.collection) <= MaxChunks
  /\ persistDir' = st.persistDir
  /\ collection' = st.collection
  /\ vectorstore' = st.vectorstore

\* Retrieval of at most k chunks, chosen among at most fetch_k candidates.
\* Which chunks are nearest depends on the embeddings: here the ranking of
\* a query is the order of the collection or its reverse.
Retrieved(coll, k, fetch_k) ==
  LET n == Min({k, fetch_k, Len(coll)})
  IN  { 1..n, (Len(coll) - n + 1)..Len(coll) }

\* _initialize_model that leaves use_fallback False when ModelInference
\* raises.
InitializeModelNoExcept(access_token, project_id, ok) ==
  IF ~access_token \/ ~project_id
    THEN [model |-> "None", use_fallback |-> TRUE]
    ELSE [model |-> IF ok THEN "ModelInference" ELSE "None", use_fallback |-> FALSE]

\* WatsonXClient.__init__ and _initialize_model: access_token says whether
\* _get_access_token got a token, project_id whether the settings hold a
\* WATSONX_PROJECT_ID, ok whether ModelInference(...) returns.
InitializeModel(access_token, project_id, ok) ==
  IF ~access_token
    THEN [model |-> "None", use_fallback |-> TRUE]
  ELSE IF ~project_id
    THEN [model |-> "None", use_fallback |-> TRUE]
  ELSE IF ok
    THEN [model |-> "ModelInference", use_fallback |-> FALSE]
  ELSE [model |-> "None", use_fallback |-> TRUE]

\* There is a ClimateRAGSystem object once the application has started.
Constructed == ragResult.op \notin {"none", "setup_directories"}

\* run_app.setup_directories: os.makedirs("data/climate_vectordb"), before
\* the launcher starts the application.
SetupDirectories ==
  /\ ~persistDir
  /\ persistDir' = TRUE
  /\ vectorstore' = "None"
  /\ ragResult' = [ NoRagResult EXCEPT !.op = "setup_directories",
                                         !.before = IndexState ]
  /\ generation' = NoGeneration
  /\ UNCHANGED << collection, use_fallback, model >>
  /\ UNCHANGED << ledgerVars, appVars >>

\* ClimateRAGSystem(): a new object in a new process; WatsonXClient() falls
\* back or not according to its credentials and the service.
NewSystem ==
  /\ vectorstore' = "None"
  /\ \E access_token \in BOOLEAN, project_id \in BOOLEAN, ok \in BOOLEAN :
       LET client == InitializeModel(access_token, project_id, ok)
       IN  use_fallback' = client.use_fallback /\ model' = client.model
  /\ ragResult' = [ NoRagResult EXCEPT !.op = "__init__", !.before = IndexState ]
  /\ generation' = NoGeneration
  /\ UNCHANGED << persistDir, collection >>
  /\ UNCHANGED << ledgerVars, appVars >>

InitializeVectorstore(documents, ok, okMinimal) ==
  LET st == InitializeVectorstoreOn(IndexState, documents, ok, okMinimal)
  IN  /\ Constructed
      /\ Install(st)
      /\ ragResult' = [ NoRagResult EXCEPT !.op = "initialize_vectorstore",
                                             !.documents = documents,
                                             !.before = IndexState,
                                             !.logged = st.logged ]
      /\ generation' = NoGeneration
      /\ UNCHANGED << use_fallback, model >>
      /\ UNCHANGED << ledgerVars, appVars >>

\* add_documents: okAdd says whether vectorstore.add_documents succeeds.
AddDocuments(documents, ok, okMinimal, okAdd) ==
  LET st1 == EnsureVectorstore(IndexState, ok, okMinimal)
      done == st1.vectorstore # "None" /\ okAdd
      st2 == IF done
               THEN [ st1 EXCEPT !.collection = @ \o SplitDocuments(documents) ]
               ELSE [ st1 EXCEPT !.logged = @ \cup {"Error adding documents"} ]
  IN  /\ Constructed
      /\ Install(st2)
      /\ ragResult' = [ NoRagResult EXCEPT !.op = "add_documents",
                                             !.documents = documents,
                                             !.before = IndexState,
                                             !.logged = st2.logged ]
      /\ generation' = NoGeneration
      /\ UNCHANGED << use_fallback, model >>
      /\ UNCHANGED << ledgerVars, appVars >>

\* retrieve_and_generate: okRetrieve says whether the retriever succeeds,
\* docs are the chunks it returns, outcome is what the model call does.
RetrieveAndGenerate(query, ok, okMinimal, okRetrieve, docs, outcome) ==
  LET st1 == EnsureVectorstore(IndexState, ok, okMinimal)
      done == st1.vectorstore # "None" /\ okRetrieve
      gen == GenerateResponse(use_fallback, query, ContextOf(st1.collection, docs),
                              outcome)
  IN  /\ Constructed
      /\ Install(st1)
      /\ IF done
           THEN /\ docs \in Retrieved(st1.collection, 5, 10)
                /\ generation' = gen
                /\ ragResult' = [ NoRagResult EXCEPT
                                    !.op = "retrieve_and_generate",
                                    !.query = query,
                                    !.before = IndexState,
                                    !.logged = st1.logged,
                                    !.answer = gen.returned,
                                    !.docs = docs ]
           ELSE /\ docs = {}
                /\ outcome = NoOutcome
                /\ generation' = NoGeneration
                /\ ragResult' = [ NoRagResult EXCEPT
                                    !.op = "retrieve_and_generate",
                                    !.query = query,
                                    !.before = IndexState,
                                    !.logged = st1.logged
                                                 \cup {"Error in retrieve_and_generate"},
                                    !.answer = RagFallbackResponse(query) ]
      /\ UNCHANGED << use_fallback, model >>
      /\ UNCHANGED << ledgerVars, appVars >>

\* search_knowledge_base(query, k).
SearchKnowledgeBase(query, k, ok, okMinimal, okSearch, docs) ==
  LET st1 == EnsureVectorstore(IndexState, ok, okMinimal)
      done == st1.vectorstore # "None" /\ okSearch
  IN  /\ Constructed
      /\ Install(st1)
      /\ IF done
           THEN docs \in Retrieved(st1.collection, k, k)
           ELSE docs = {}
      /\ ragResult' = [ NoRagResult EXCEPT
                          !.op = "search_knowledge_base",
                          !.query = query,
                          !.before = IndexState,
                          !.logged = IF done THEN st1.logged
                                     ELSE st1.logged
                                            \cup {"Error searching knowledge base"},
                          !.docs = docs ]
      /\ generation' = NoGeneration
      /\ UNCHANGED << use_fallback, model >>
      /\ UNCHANGED << ledgerVars, appVars >>

\* A direct call of watsonx_client.generate_response(prompt, context).
GenerateResponseCall(prompt, context, outcome) ==
  /\ Constructed
  /\ generation' = GenerateResponse(use_fallback, prompt, context, outcome)
  /\ ragResult' = [ NoRagResult EXCEPT !.op = "generate_response",
                                         !.query = prompt,
                                         !.before = IndexState ]
  /\ UNCHANGED << persistDir, collection, vectorstore, use_fallback, model >>
  /\ UNCHANGED << ledgerVars, appVars >>

(***************************************************************************)
(* The knowledge index of the documentation assistant.  Every Streamlit    *)
(* session holds its own ClimateRAGSystem on the same persist_directory    *)
(* (load_rag_system) and runs in its own thread; initialize_vectorstore    *)
(* takes no lock, so the test for chroma.sqlite3 and the build that        *)
(* follows it are two steps.  The documents it is given are stored whole.  *)
(***************************************************************************)
DefaultK == 5
FetchK == 10
RetrieveKs == {1, DefaultK, FetchK + 1}

\* doc_processor.create_documents(readme_path): the chunks of the README.
ReadmeDocuments ==
  [ i \in 1..ReadmeChunks |->
      [source |-> "README.md", part |-> i, california |-> FALSE] ]

\* The documents callers pass: none, or more of them than FetchK.
SuppliedDocuments ==
  [ i \in 1..(FetchK + 2) |->
      [source |-> "supplied", part |-> i, california |-> FALSE] ]
AppDocumentLists == { << >>, SuppliedDocuments }

AppIdle(p) == appPc[p] = "idle"

\* initialize_vectorstore(documents, force_rebuild) up to its test
\* "vectorstore_exists = os.path.exists(.../chroma.sqlite3)".
AppInitializeCheck(p, documents, force_rebuild) ==
  /\ AppIdle(p)
  /\ appPc' = [appPc EXCEPT ![p] = "checked"]
  /\ appArgs' = [appArgs EXCEPT ![p] = [ documents |-> documents,
                                         force_rebuild |-> force_rebuild,
                                         exists |-> appFile ]]
  /\ forced' = (forced \/ force_rebuild)
  /\ UNCHANGED << appFile, appCollection, readme, appStore, appRetriever, appResult >>
  /\ UNCHANGED << ledgerVars, indexVars >>

\* The retriever initialize_vectorstore installs.
NewRetriever == [k |-> DefaultK, fetch_k |-> FetchK]

\* The load branch: "if vectorstore_exists and not force_rebuild".
AppInitializeLoad(p) ==
  /\ appPc[p] = "checked"
  /\ appArgs[p].exists /\ ~appArgs[p].force_rebuild
  /\ appStore' = [appStore EXCEPT ![p] = "Chroma"]
  /\ appRetriever' = [appRetriever EXCEPT ![p] = NewRetriever]
  /\ appPc' = [appPc EXCEPT ![p] = "idle"]
  /\ appArgs' = [appArgs EXCEPT ![p] = NoAppArgs]
  /\ appResult' = [ NoAppResult EXCEPT !.op = "initialize_vectorstore", !.proc = p,
                                        !.n = Len(appCollection) ]
  /\ UNCHANGED << appFile, appCollection, readme, forced >>
  /\ UNCHANGED << ledgerVars, indexVars >>

\* The documents the build branch stores: those given, or those of the
\* README.
AppBuildDocuments(p) ==
  IF appArgs[p].documents = << >> THEN ReadmeDocuments ELSE appArgs[p].documents

\* The build branch: Chroma.from_documents into the collection of the
\* persist directory, then persist.
AppInitializeBuild(p) ==
  /\ appPc[p] = "checked"
  /\ ~(appArgs[p].exists /\ ~appArgs[p].force_rebuild)
  /\ appArgs[p].documents = << >> => readme
  /\ Len(appCollection) + Len(AppBuildDocuments(p)) <= MaxAppChunks
  /\ appCollection' = appCollection \o AppBuildDocuments(p)
  /\ appFile' = TRUE
  /\ appStore' = [appStore EXCEPT ![p] = "Chroma"]
  /\ appRetriever' = [appRetriever EXCEPT ![p] = NewRetriever]
  /\ appPc' = [appPc EXCEPT ![p] = "idle"]
  /\ appArgs' = [appArgs EXCEPT ![p] = NoAppArgs]
  /\ appResult' = [ NoAppResult EXCEPT !.op = "initialize_vectorstore", !.proc = p,
                                        !.n = Len(appCollection) ]
  /\ UNCHANGED << readme, forced >>
  /\ UNCHANGED << ledgerVars, indexVars >>

\* The build branch without documents and without a README:
\* "raise FileNotFoundError".
AppInitializeFails(p) ==
  /\ appPc[p] = "checked"
  /\ ~(appArgs[p].exists /\ ~appArgs[p].force_rebuild)
  /\ appArgs[p].documents = << >> /\ ~readme
  /\ appPc' = [appPc EXCEPT ![p] = "idle"]
  /\ appArgs' = [appArgs EXCEPT ![p] = NoAppArgs]
  /\ appResult' = [ NoAppResult EXCEPT !.op = "initialize_vectorstore", !.proc = p,
                                        !.raised = TRUE,
                                        !.error = "FileNotFoundError",
                                        !.n = Len(appCollection) ]
  /\ UNCHANGED << appFile, appCollection, readme, appStore, appRetriever, forced >>
  /\ UNCHANGED << ledgerVars, indexVars >>

\* retrieve_documents(query, k): docs are the documents the retriever
\* returns.
AppRetrieveDocuments(p, k, docs) ==
  /\ AppIdle(p)
  /\ IF appRetriever[p] = NoRetriever
       THEN /\ docs = {}
            /\ appRetriever' = appRetriever
            /\ appResult' = [ NoAppResult EXCEPT !.op = "retrieve_documents",
                                                  !.proc = p,
                                                  !.raised = TRUE,
                                                  !.error = "ValueError",
                                                  !.k = k,
                                                  !.n = Len(appCollection) ]
       ELSE /\ docs \in Retrieved(appCollection, k, appRetriever[p].fetch_k)
            /\ appRetriever' = [appRetriever EXCEPT ![p].k = k]
            /\ appResult' = [ NoAppResult EXCEPT !.op = "retrieve_documents",
                                                  !.proc = p,
                                                  !.k = k,
                                                  !.n = Len(appCollection),
                                                  !.docs = docs ]
  /\ UNCHANGED << appFile, appCollection, readme, appStore, appPc, appArgs, forced >>
  /\ UNCHANGED << ledgerVars, indexVars >>

(***************************************************************************)
(* The template composer of the documentation assistant.  A query is the   *)
(* set of the phrases it contains; a retrieved document is the words of    *)
(* its section, its type, the length of its page_content and whether the   *)
(* content holds one of the words benefit, advantage, value.  An answer is *)
(* its first line, whether the ClimateIQ sentence follows, and its quotes: *)
(* the document quoted, the characters of it quoted from the start, and    *)
(* whether "..." follows.                                                  *)
(***************************************************************************)
ComposeQueries ==
  { {"what is", "platform"}, {"what is"}, {"how to"}, {"why"}, {"technical"},
    {"climate"} }

ComposeDocs ==
  { [section |-> {"overview"}, type |-> "general", length |-> 100, benefitWord |-> TRUE],
    [section |-> {"phase", "value"}, type |-> "implementation", length |-> 1000,
     benefitWord |-> TRUE],
    [section |-> {"architecture"}, type |-> "technical", length |-> 350,
     benefitWord |-> FALSE] }

RetrievedLists == UNION { [1..n -> ComposeDocs] : n \in 0..MaxRetrieved }

\* seq[:n]
FirstN(seq, n) == SubSeq(seq, 1, Min({n, Len(seq)}))

\* page_content[:limit] + "..." if len(page_content) > limit else
\* page_content; with always, page_content[:limit] + "...".
Quote(docs, i, limit, always) ==
  [ doc |-> i,
    chars |-> Min({docs[i].length, limit}),
    ellipsis |-> always \/ docs[i].length > limit ]

QuoteAll(docs, picked, limit, always) ==
  [ n \in 1..Len(picked) |-> Quote(docs, picked[n], limit, always) ]

Positions(docs) == [i \in 1..Len(docs) |-> i]

\* _generate_descriptive_answer
DescriptiveAnswer(query, docs) ==
  [ header |-> "Based on the Climate Action Intelligence Platform documentation:",
    blurb |-> query \cap {"climateiq", "platform"} # {},
    quotes |-> QuoteAll(docs, FirstN(Positions(docs), 3), 300, FALSE) ]

\* _generate_how_to_answer
HowToAnswer(query, docs) ==
  LET implementation_docs ==
        SelectSeq(Positions(docs),
                  LAMBDA i : docs[i].type = "implementation" \/ "phase" \in docs[i].section)
  IN  [ header |-> "Here's how to proceed based on the documentation:",
        blurb |-> FALSE,
        quotes |-> IF implementation_docs # << >>
                     THEN QuoteAll(docs, FirstN(implementation_docs, 3), 400, TRUE)
                     ELSE QuoteAll(docs, FirstN(Positions(docs), 3), 300, TRUE) ]

\* _generate_why_answer
WhyAnswer(query, docs) ==
  LET benefit_docs ==
        SelectSeq(Positions(docs),
                  LAMBDA i : docs[i].section
                               \cap {"value", "benefit", "advantage", "why", "competitive"}
                               # {})
  IN  [ header |-> "Here are the key reasons and benefits:",
        blurb |-> FALSE,
        quotes |-> IF benefit_docs # << >>
                     THEN QuoteAll(docs, FirstN(benefit_docs, 2), 400, TRUE)
                     ELSE QuoteAll(docs,
                                   SelectSeq(FirstN(Positions(docs), 3),
                                             LAMBDA i : docs[i].benefitWord),
                                   300, TRUE) ]

\* _generate_technical_answer
TechnicalAnswer(query, docs) ==
  LET tech_docs == SelectSeq(Positions(docs), LAMBDA i : docs[i].type = "technical")
  IN  [ header |-> "Technical details from the documentation:",
        blurb |-> FALSE,
        quotes |-> IF tech_docs # << >>
                     THEN QuoteAll(docs, FirstN(tech_docs, 3), 400, TRUE)
                     ELSE QuoteAll(docs, FirstN(Positions(docs), 3), 300, TRUE) ]

\* _generate_general_answer
GeneralAnswer(query, docs) ==
  [ header |-> "Based on the available documentation:",
    blurb |-> FALSE,
    quotes |-> QuoteAll(docs, FirstN(Positions(docs), 3), 350, FALSE) ]

\* _generate_template_answer: the composer chosen by the phrases of the
\* query.
TemplateAnswer(query, docs) ==
  IF query \cap {"what is", "what are", "describe", "explain"} # {}
    THEN DescriptiveAnswer(query, docs)
  ELSE IF query \cap {"how to", "how do", "steps", "implement"} # {}
    THEN HowToAnswer(query, docs)
  ELSE IF query \cap {"why", "benefits", "advantages"} # {}
    THEN WhyAnswer(query, docs)
  ELSE IF query \cap {"technical", "architecture", "components"} # {}
    THEN TechnicalAnswer(query, docs)
  ELSE GeneralAnswer(query, docs)

\* generate_answer(query, retrieved_docs)
GenerateAnswer(query, docs) ==
  /\ appResult' = [ NoAppResult EXCEPT !.op = "generate_answer",
                                        !.query = query,
                                        !.retrieved = docs,
                                        !.answer = TemplateAnswer(query, docs) ]
  /\ UNCHANGED << appFile, appCollection, readme, appStore, appRetriever, appPc,
                  appArgs, forced >>
  /\ UNCHANGED << ledgerVars, indexVars >>

(***************************************************************************)
(* The specifications.                                                     *)
(*                                                                         *)
(* Spec: one session tracks actions, one call after the other, while time  *)
(* passes and summaries are requested at any moment.                       *)
(***************************************************************************)
Next ==
  \/ \E u \in Users, in \in TrackInputs :
       calls < MaxCalls /\ TrackAction(1, u, in[1], in[2])
  \/ \E u \in Users, in \in TrackInputs :
       calls < MaxCalls /\ TrackActionFails(1, u, in[1], in[2])
  \/ UpdateSelect(1)
  \/ UpdateWrite(1)
  \/ UpdateFails(1)
  \/ Return(1)
  \/ Tick
  \/ \E u \in Users, d \in PeriodDays : GetUserImpactSummary(u, d)

Spec == Init /\ [][Next]_vars

(***************************************************************************)
(* SpecOneCall: a single track_action call on a fresh database, for every  *)
(* action type and a range of quantities, followed to its return.          *)
(***************************************************************************)
NextOneCall ==
  \/ \E u \in Users, a \in AllActionTypes, q \in CalcQuantities : TrackAction(1, u, a, q)
  \/ \E u \in Users, a \in AllActionTypes, q \in CalcQuantities : TrackActionFails(1, u, a, q)
  \/ UpdateSelect(1)
  \/ UpdateWrite(1)
  \/ UpdateFails(1)

SpecOneCall == Init /\ [][NextOneCall]_vars

(***************************************************************************)
(* SpecConcurrent: two sessions track actions at the same time.            *)
(***************************************************************************)
NextConcurrent ==
  \/ \E p \in Procs, u \in Users, in \in RacingInputs :
       calls < MaxRacingCalls /\ TrackAction(p, u, in[1], in[2])
  \/ \E p \in Procs, u \in Users, in \in RacingInputs :
       calls < MaxRacingCalls /\ TrackActionFails(p, u, in[1], in[2])
  \/ \E p \in Procs : UpdateSelect(p)
  \/ \E p \in Procs : UpdateWrite(p)
  \/ \E p \in Procs : UpdateFails(p)
  \/ \E p \in Procs : Return(p)
  \/ Tick

SpecConcurrent == Init /\ [][NextConcurrent]_vars

(***************************************************************************)
(* SpecOps: the four operations of the ledger in any order, at one time.   *)
(***************************************************************************)
NextOps ==
  \/ \E u \in Users, in \in TrackInputs :
       calls < MaxCalls /\ TrackAction(1, u, in[1], in[2])
  \/ \E u \in Users, in \in TrackInputs :
       calls < MaxCalls /\ TrackActionFails(1, u, in[1], in[2])
  \/ UpdateSelect(1)
  \/ UpdateWrite(1)
  \/ UpdateFails(1)
  \/ Return(1)
  \/ \E u \in Users, d \in PeriodDays : GetUserImpactSummary(u, d)
  \/ \E u \in Users, t \in GoalTargets : SetUserGoal(u, t)
  \/ \E u \in Users : GetUserGoalsProgress(u)

SpecOps == Init /\ [][NextOps]_vars

(***************************************************************************)
(* SpecWrites: the operations that write - track_action and set_user_goal  *)
(* - in any order, at one time.                                            *)
(***************************************************************************)
NextWrites ==
  \/ \E u \in Users, in \in TrackInputs :
       calls < MaxCalls /\ TrackAction(1, u, in[1], in[2])
  \/ \E u \in Users, in \in TrackInputs :
       calls < MaxCalls /\ TrackActionFails(1, u, in[1], in[2])
  \/ UpdateSelect(1)
  \/ UpdateWrite(1)
  \/ UpdateFails(1)
  \/ Return(1)
  \/ \E u \in Users : SetUserGoal(u, 100000)

SpecWrites == Init /\ [][NextWrites]_vars

(***************************************************************************)
(* SpecProgress: goals are set and their progress is asked for, and the    *)
(* progress expression is applied to rows of every current and target      *)
(* value.                                                                  *)
(***************************************************************************)
NextProgress ==
  \/ \E u \in Users, t \in GoalTargets : SetUserGoal(u, t)
  \/ \E u \in Users : GetUserGoalsProgress(u)
  \/ \E current \in ProgressCurrents, target \in ProgressTargets :
       GoalDict(current, target)

InitProgress == Init /\ tzOffset = 0
SpecProgress == InitProgress /\ [][NextProgress]_vars

(***************************************************************************)
(* SpecIndex: the main application is launched, with or without the        *)
(* launcher's setup_directories, and its knowledge index is initialised,   *)
(* extended and queried, one call after the other; any step that reaches   *)
(* outside the process (the vector database, the external model) can fail. *)
(***************************************************************************)
NextIndex ==
  \/ SetupDirectories
  \/ NewSystem
  \/ \E documents \in DocumentLists, ok \in BOOLEAN :
       \E okMinimal \in (IF ok THEN {TRUE} ELSE BOOLEAN) :
         InitializeVectorstore(documents, ok, okMinimal)
  \/ \E ok \in LazyOutcomes, okAdd \in BOOLEAN :
       \E okMinimal \in (IF ok THEN {TRUE} ELSE BOOLEAN) :
         AddDocuments(<< SeedDocument >>, ok, okMinimal, okAdd)
  \/ \E query \in Queries, ok \in LazyOutcomes, okRetrieve \in BOOLEAN :
       \E okMinimal \in (IF ok THEN {TRUE} ELSE BOOLEAN) :
         \E docs \in (IF okRetrieve
                        THEN Retrieved(EnsureVectorstore(IndexState, ok, okMinimal).collection,
                                       5, 10)
                        ELSE {{}}),
            outcome \in (IF okRetrieve THEN OutcomesOf(use_fallback) ELSE {NoOutcome}) :
           RetrieveAndGenerate(query, ok, okMinimal, okRetrieve, docs, outcome)
  \/ \E ok \in LazyOutcomes, okSearch \in BOOLEAN :
       \E okMinimal \in (IF ok THEN {TRUE} ELSE BOOLEAN) :
         \E docs \in (IF okSearch
                        THEN Retrieved(EnsureVectorstore(IndexState, ok, okMinimal).collection,
                                       1, 1)
                        ELSE {{}}) :
           SearchKnowledgeBase({"solar"}, 1, ok, okMinimal, okSearch, docs)

InitIndex == Init /\ tzOffset = 0
SpecIndex == InitIndex /\ [][NextIndex]_vars

(***************************************************************************)
(* SpecGenerate: generate_response called directly, for every prompt,      *)
(* context and outcome of the model call, in a client of either mode.      *)
(***************************************************************************)
NextGenerate ==
  \/ NewSystem
  \/ \E prompt \in Queries, context \in Contexts, outcome \in OutcomesOf(use_fallback) :
       GenerateResponseCall(prompt, context, outcome)

SpecGenerate == InitIndex /\ [][NextGenerate]_vars

(***************************************************************************)
(* SpecApp: two sessions of the documentation assistant initialise the     *)
(* index and retrieve from it, at any time; the README is there or not.    *)
(***************************************************************************)
NextApp ==
  \/ \E p \in Procs, documents \in AppDocumentLists, force_rebuild \in BOOLEAN :
       AppInitializeCheck(p, documents, force_rebuild)
  \/ \E p \in Procs : AppInitializeLoad(p)
  \/ \E p \in Procs : AppInitializeBuild(p)
  \/ \E p \in Procs : AppInitializeFails(p)
  \/ \E p \in Procs, k \in RetrieveKs :
       \E docs \in (IF appRetriever[p] = NoRetriever
                      THEN {{}}
                      ELSE Retrieved(appCollection, k, appRetriever[p].fetch_k)) :
         AppRetrieveDocuments(p, k, docs)

InitApp == LedgerInit /\ tzOffset = 0 /\ IndexInit /\ AppInit /\ readme \in BOOLEAN
SpecApp == InitApp /\ [][NextApp]_vars

(***************************************************************************)
(* SpecCompose: generate_answer on every query and every list of at most   *)
(* MaxRetrieved retrieved documents.                                       *)
(***************************************************************************)
NextCompose ==
  \E query \in ComposeQueries, docs \in RetrievedLists : GenerateAnswer(query, docs)

SpecCompose == InitApp /\ [][NextCompose]_vars

(***************************************************************************)
(* Vocabulary of the claims.                                               *)
(***************************************************************************)
\* The rows of actions of user u, and the sum of one of their columns.
RowsOf(u) == { i \in 1..Len(actions) : actions[i].user_id = u }

RECURSIVE SumOfRows(_, _)
SumOfRows(S, col) ==
  IF S = {} THEN 0
  ELSE LET i == CHOOSE x \in S : TRUE
       IN  actions[i][col] + SumOfRows(S \ {i}, col)

\* The value user_metrics holds for (u, m, month): the values of its rows
\* added up, 0 when there is none.
RECURSIVE SumOfValues(_, _)
SumOfValues(table, S) ==
  IF S = {} THEN 0
  ELSE LET i == CHOOSE x \in S : TRUE
       IN  table[i].value + SumOfValues(table, S \ {i})

Aggregate(table, u, m, month) ==
  SumOfValues(table, { i \in 1..Len(table) : /\ table[i].user_id = u
                                             /\ table[i].metric_type = m
                                             /\ table[i].period = month })

\* A call of thread p has stored its record: it is past the insert and
\* ends with a result dict.
Stored(p) == pc[p] \in {"select", "write"} \/ (pc[p] = "done" /\ result[p] = "ok")

(***************************************************************************)
(* C1.  The action records form an append-only ledger: whatever operation  *)
(* takes a step, the records stored before it are unchanged and in place,  *)
(* at most one record is added, a record is added exactly by a             *)
(* track_action that goes on to return its result dict, and that record    *)
(* carries the arguments of the call and the impact computed from them.    *)
(***************************************************************************)
C1_AppendOnlyStep ==
  /\ Len(actions') \in {Len(actions), Len(actions) + 1}
  /\ SubSeq(actions', 1, Len(actions)) = actions
  /\ (Len(actions') = Len(actions) + 1) <=>
        (\E p \in Procs : ~Stored(p) /\ Stored(p)')
  /\ \A p \in Procs : (~Stored(p) /\ Stored(p)') =>
        LET r == actions'[Len(actions')]
            c == CalculateImpact(args'[p].action_type, args'[p].quantity)
        IN  /\ action_id'[p] = Len(actions')
            /\ r.id = Len(actions')
            /\ r.user_id = args'[p].user_id
            /\ r.action_type = args'[p].action_type
            /\ r.quantity = args'[p].quantity
            /\ r.co2_impact = c.co2_impact
            /\ r.energy_impact = c.energy_impact
            /\ r.water_impact = c.water_impact
            /\ r.waste_impact = c.waste_impact
  /\ \A p \in Procs : (pc'[p] = "done" /\ result'[p] = "error" /\ pc[p] # "done") =>
        actions' = actions

C1_AppendOnly == [][C1_AppendOnlyStep]_vars

\* Two records are stored, a goal is set, and a summary was just read.
C1_Witness ==
  /\ Len(actions) = 2
  /\ Len(goals) = 1
  /\ pc[1] = "done" /\ result[1] = "ok"
  /\ summary # NoSummary

(***************************************************************************)
(* C2.  The CO2 total of a summary against the stored records.             *)
(***************************************************************************)
\* The records the summary of (u, d) is drawn from: those of u whose stored
\* timestamp is not before the start date of the query.
C2_Window(u, d) ==
  { i \in RowsOf(u) : actions[i].timestamp >= clock + tzOffset - d * TicksPerDay }

C3_NoLostUpdate ==
  ( /\ callsInFlight = 2
    /\ \A p \in Procs : pc[p] = "done" /\ result[p] = "ok" /\ logged[p] = {}
    /\ args[1].user_id = args[2].user_id
    /\ existing[1].period = existing[2].period )
  => \A m \in MetricTypes :
       Aggregate(user_metrics, args[1].user_id, m, existing[1].period)
         = Aggregate(metricsBefore, args[1].user_id, m, existing[1].period)
           + impact[1][m] + impact[2][m]

(***************************************************************************)
(* C4.  A summary requested at time now counts exactly the records of the  *)
(* user whose stored timestamp t satisfies now - d days <= t <= now.       *)
(***************************************************************************)
C4_WindowExact ==
  summary # NoSummary =>
    summary.total_actions =
      Cardinality({ i \in RowsOf(summary.user_id) :
                      /\ clock - summary.period_days * TicksPerDay <= actions[i].timestamp
                      /\ actions[i].timestamp <= clock })

(***************************************************************************)
(* C5.  A summary with d >= 1 requested right after a track_action that    *)
(* returned its result dict counts the new record: total_actions is one    *)
(* more than the count without it, the breakdown names the action type;    *)
(* for led_bulb_replacement, 3.0 on an empty ledger total_actions is 1 and *)
(* the CO2 total 1.5.                                                      *)
(***************************************************************************)
C5_NewRecordCounted ==
  ( /\ summary # NoSummary
    /\ summary.period_days >= 1
    /\ pc[1] = "done" /\ result[1] = "ok"
    /\ args[1].user_id = summary.user_id
    /\ actions[action_id[1]].timestamp = clock )
  => /\ summary.total_actions =
          1 + Cardinality(C2_Window(summary.user_id, summary.period_days) \ {action_id[1]})
     /\ \E e \in summary.actions_breakdown : e.action_type = args[1].action_type
     /\ ( /\ Len(actions) = 1
          /\ args[1].action_type = "led_bulb_replacement"
          /\ args[1].quantity = 3000 )
        => (summary.total_actions = 1 /\ summary.co2_saved_kg = 1500)

\* The example of the claim, on a host ahead of UTC.
C5_Witness ==
  /\ summary # NoSummary
  /\ summary.period_days = 1
  /\ tzOffset = 1
  /\ pc[1] = "done" /\ result[1] = "ok"
  /\ args[1].user_id = summary.user_id
  /\ Len(actions) = 1
  /\ actions[1].timestamp = clock
  /\ summary.total_actions = 1
  /\ summary.co2_saved_kg = 1500

(***************************************************************************)
(* C6.  When a write of track_action fails, the call ends in an error      *)
(* outcome.                                                                *)
(***************************************************************************)
C6_FailureSurfaced ==
  \A p \in Procs : (pc[p] = "done" /\ logged[p] # {}) => result[p] = "error"

(***************************************************************************)
(* C7.  Calls one after the other within one calendar month: once the      *)
(* call has returned, the aggregate of every user and dimension for the    *)
(* month is the sum of that dimension over the user's records.             *)
(***************************************************************************)
C7_AggregateIsSum ==
  ( /\ \A p \in Procs : ~InFlight(p)
    /\ MonthOf(LocalNow) = MonthOf(tzOffset) )
  => \A u \in Users, m \in MetricTypes :
       Aggregate(user_metrics, u, m, MonthOf(LocalNow)) = SumOfRows(RowsOf(u), m)

(***************************************************************************)
(* C8.  track_action with a negative quantity ends in an error, appends no *)
(* record and changes no aggregate.                                        *)
(***************************************************************************)
C8_NegativeRejected ==
  \A p \in Procs :
    (pc[p] # "idle" /\ args[p].quantity < 0) =>
      /\ ~Stored(p)
      /\ actions = << >>
      /\ user_metrics = << >>

(***************************************************************************)
(* C9.  For an action type of the factor table the co2 impact is           *)
(* factor * quantity rounded to 3 decimal places (within half a            *)
(* thousandth of the product), so that the impact of m times the quantity  *)
(* is m times the impact up to the two roundings.                          *)
(***************************************************************************)
Multipliers == {2, 3}

C9_Co2Linear ==
  \A p \in Procs :
    (pc[p] # "idle" /\ args[p].action_type \in DOMAIN impact_factors) =>
      LET a == args[p].action_type
          q == args[p].quantity
          c == impact[p].co2_impact
      IN  /\ 2 * Abs(10 * c - impact_factors[a] * q) <= 10
          /\ \A m \in Multipliers :
               2 * Abs(CalculateImpact(a, m * q).co2_impact - m * c) <= m + 1
          /\ Stored(p) => actions[action_id[p]].co2_impact = c

\* 0.3 * 1.234 = 0.3702 is stored as 0.370.
C9_Witness ==
  /\ Stored(1)
  /\ args[1].action_type = "thermostat_adjustment"
  /\ args[1].quantity = 1234
  /\ actions[action_id[1]].co2_impact = 370

(***************************************************************************)
(* C10.  An action type that is not in the factor table is tracked with    *)
(* co2 impact 0: the call is accepted whenever the thread is free, and     *)
(* unless the insert itself fails the record is stored and the call ends   *)
(* without error.                                                          *)
(***************************************************************************)
C10_UnknownTracked ==
  /\ pc[1] = "idle" =>
       \A a \in AllActionTypes \ DOMAIN impact_factors :
         ENABLED TrackAction(1, "u1", a, 1000)
  /\ \A p \in Procs :
       (pc[p] # "idle" /\ args[p].action_type \notin DOMAIN impact_factors) =>
         /\ impact[p].co2_impact = 0
         /\ ("Error tracking action" \notin logged[p]) =>
              /\ Stored(p)
              /\ actions[action_id[p]].action_type = args[p].action_type
              /\ actions[action_id[p]].co2_impact = 0

\* rainwater_harvesting is tracked: stored with co2 impact 0 and a water
\* impact, and the call returned its result dict.
C10_Witness ==
  /\ pc[1] = "done" /\ result[1] = "ok"
  /\ args[1].action_type = "rainwater_harvesting"
  /\ actions[action_id[1]].co2_impact = 0
  /\ actions[action_id[1]].water_impact = 30000
  /\ Aggregate(user_metrics, args[1].user_id, "water_impact", MonthOf(LocalNow)) = 30000

(***************************************************************************)
(* C11.  Signs of the impact of a quantity >= 0.                           *)
(***************************************************************************)
\* C11 as claimed: for a quantity >= 0 each of the four impacts is >= 0.
C11_NonNegative ==
  \A p \in Procs :
    (pc[p] # "idle" /\ args[p].quantity >= 0) =>
      \A m \in MetricTypes : impact[p][m] >= 0

\* C11 as amended: for a quantity >= 0 the energy, water and waste impacts
\* are >= 0, and the co2 impact has the sign of the action's factor: >= 0
\* for a factor >= 0 (and for a type outside the table), <= 0 for a
\* negative factor.
C11_SignOfFactor ==
  \A p \in Procs :
    (pc[p] # "idle" /\ args[p].quantity >= 0) =>
      LET f == BaseFactor(args[p].action_type) IN
      /\ impact[p].energy_impact >= 0
      /\ impact[p].water_impact >= 0
      /\ impact[p].waste_impact >= 0
      /\ f >= 0 => impact[p].co2_impact >= 0
      /\ f < 0 => impact[p].co2_impact <= 0
      /\ (f < 0 /\ args[p].quantity >= 1000) => impact[p].co2_impact < 0

\* solar_panel_kwh, 3.0: co2 impact -1.2, energy impact 3.0.
C11_Witness ==
  /\ pc[1] # "idle"
  /\ args[1].action_type = "solar_panel_kwh"
  /\ args[1].quantity = 3000
  /\ impact[1].co2_impact = -1200
  /\ impact[1].energy_impact = 3000

(***************************************************************************)
(* C12.  The summary of a user with no records is the empty summary:       *)
(* total_actions 0, every total 0, every equivalent 0, an empty breakdown. *)
(* (Records are never removed, so a user without records now had none when *)
(* the summary on hand was computed.)                                      *)
(***************************************************************************)
C12_EmptySummary ==
  (summary # NoSummary /\ RowsOf(summary.user_id) = {}) =>
    /\ summary.total_actions = 0
    /\ summary.co2_saved_kg = 0
    /\ summary.energy_saved_kwh = 0
    /\ summary.water_saved_gallons = 0
    /\ summary.waste_diverted_kg = 0
    /\ summary.actions_breakdown = {}
    /\ \A k \in DOMAIN summary.equivalent_impact : summary.equivalent_impact[k] = 0

\* The summary of a user without records, while the other user has one in
\* the period asked for.
C12_Witness ==
  /\ summary # NoSummary
  /\ RowsOf(summary.user_id) = {}
  /\ summary.period_days = 1
  /\ \E i \in 1..Len(actions) : actions[i].timestamp >= StartDate(1)
  /\ summary.total_actions = 0

(***************************************************************************)
(* C13.  The ledger is partitioned by user_id: a step changes the action   *)
(* records, the monthly aggregates, the goals or a summary of a user only  *)
(* if it is a step of a track_action of that user or a set_user_goal of    *)
(* that user.                                                              *)
(***************************************************************************)
UserRows(table, v) == SelectSeq(table, LAMBDA r : r.user_id = v)

\* A step of an operation of user v.
C13_StepOf(v) ==
  \/ \E p \in Procs : pc'[p] # pc[p] /\ args'[p].user_id = v
  \/ \E t \in GoalTargets : SetUserGoal(v, t)

\* The summaries of v are the same after the step as before it.  (A
\* summary reads actions and the two clocks only.)
C13_SummaryKept(v) ==
  \/ UNCHANGED << actions, clock, tzOffset >>
  \/ \A d \in PeriodDays : ImpactSummary(v, d)' = ImpactSummary(v, d)

C13_PartitionStep ==
  \A v \in Users :
    \/ C13_StepOf(v)
    \/ /\ UserRows(actions', v) = UserRows(actions, v)
       /\ UserRows(user_metrics', v) = UserRows(user_metrics, v)
       /\ UserRows(goals', v) = UserRows(goals, v)
       /\ GoalsProgress(v)' = GoalsProgress(v)
       /\ C13_SummaryKept(v)

C13_Partitioned == [][C13_PartitionStep]_vars

\* Both users have a record and an aggregate, and one of them a goal.
C13_Witness ==
  /\ \A v \in Users : RowsOf(v) # {}
  /\ \A v \in Users : UserRows(user_metrics, v) # << >>
  /\ Len(goals) = 1

(***************************************************************************)
(* C14.  retrieve_and_generate never raises to its caller: for every       *)
(* query and every failure of index initialisation, of retrieval or of     *)
(* the external model, it returns a non-empty answer text.                 *)
(***************************************************************************)
C14_AlwaysAnswers ==
  ragResult.op = "retrieve_and_generate" =>
    /\ ~ragResult.raised
    /\ ragResult.answer # NoText
    /\ ~IsEmptyText(ragResult.answer)

(***************************************************************************)
(* C15.  In generate_response, when the call of the external model raises  *)
(* or returns an empty output, the text returned is the fallback answer    *)
(* for the prompt and the context, the text fallback mode returns for      *)
(* them, and no exception reaches the caller.                              *)
(***************************************************************************)
C15_FallbackOnFailure ==
  (generation.mode = "model" /\ (generation.raised \/ generation.output = << >>)) =>
    generation.returned =
      GenerateResponse(TRUE, generation.prompt, generation.context, NoOutcome).returned

(***************************************************************************)
(* C16.  initialize_vectorstore on a system where no index was ever        *)
(* persisted builds the index from the documents supplied, or from the     *)
(* built-in sample corpus when none are supplied, and persists it: after   *)
(* a call in which nothing failed the index holds the chunks of that       *)
(* corpus.                                                                 *)
(***************************************************************************)
C16_BuiltWhenNonePersisted ==
  ( /\ ragResult.op = "initialize_vectorstore"
    /\ ragResult.before.collection = << >>
    /\ ragResult.logged = {} ) =>
    /\ vectorstore = "Chroma"
    /\ persistDir
    /\ collection = SplitDocuments(IF ragResult.documents = << >>
                                     THEN SampleClimateDocuments
                                     ELSE ragResult.documents)

(***************************************************************************)
(* C17.  initialize_vectorstore is idempotent: a second call on a system   *)
(* that holds an index builds nothing and adds no chunks, the index holds  *)
(* after it exactly the chunks it held before it.                          *)
(***************************************************************************)
C17_Idempotent ==
  ( /\ ragResult.op = "initialize_vectorstore"
    /\ ragResult.before.vectorstore = "Chroma" ) =>
    /\ collection = ragResult.before.collection
    /\ vectorstore = "Chroma"

(***************************************************************************)
(* C19.  add_documents, and any other operation that needs the knowledge   *)
(* index, called before initialize_vectorstore fails with an error         *)
(* surfaced to the caller and neither creates nor modifies an index.       *)
(***************************************************************************)
C19_FailsBeforeInitialize ==
  ( /\ ragResult.op \in {"add_documents", "retrieve_and_generate",
                         "search_knowledge_base"}
    /\ ragResult.before.vectorstore = "None" ) =>
    /\ ragResult.raised
    /\ vectorstore = "None"
    /\ persistDir = ragResult.before.persistDir
    /\ collection = ragResult.before.collection

(***************************************************************************)
(* C18.  When several callers trigger initialize_vectorstore at the same   *)
(* time with no persisted index present, the index is built only once: no  *)
(* chunk of the seed corpus is stored twice.                               *)
(***************************************************************************)
C18_BuiltOnce ==
  ~forced =>
    \A i, j \in 1..Len(appCollection) :
      appCollection[i] = appCollection[j] => i = j

(***************************************************************************)
(* C20.  For every k >= 1, retrieve_documents(query, k) on an initialised  *)
(* index holding N chunks returns min(k, N) chunks, and never an error.    *)
(***************************************************************************)
C20_ReturnsMinKN ==
  ( /\ appResult.op = "retrieve_documents"
    /\ appResult.error # "ValueError" ) =>
    /\ ~appResult.raised
    /\ Cardinality(appResult.docs) = Min({appResult.k, appResult.n})

(***************************************************************************)
(* C24.  get_user_goals_progress reports, for each active goal,            *)
(* progress_percentage = current_value / target_value * 100 (to one        *)
(* decimal), and 0 when target_value is 0.                                 *)
(***************************************************************************)
C24_ProgressFormula ==
  goalsProgress # NoProgress =>
    \A g \in goalsProgress.goals :
      /\ g.target_value = 0 => g.progress_percentage = 0
      /\ g.target_value > 0 =>
            2 * Abs(g.progress_percentage * g.target_value - g.current_value * 1000)
              <= g.target_value

\* A goal two thirds of the way to its target is reported at 66.7 percent.
C24_Witness ==
  /\ goalsProgress # NoProgress
  /\ \E g \in goalsProgress.goals :
       /\ g.current_value = 2000
       /\ g.target_value = 3000
       /\ g.progress_percentage = 667

(***************************************************************************)
(* C25.  Every goal starts in status active, and its status only ever      *)
(* moves from active to completed, abandoned or expired: a goal in one of  *)
(* these statuses keeps it.                                                *)
(***************************************************************************)
TerminalStatuses == {"completed", "abandoned", "expired"}

C25_LifecycleStep ==
  /\ Len(goals') >= Len(goals)
  /\ \A i \in 1..Len(goals') :
       IF i <= Len(goals)
         THEN /\ goals'[i].id = goals[i].id
              /\ \/ goals'[i].status = goals[i].status
                 \/ /\ goals[i].status = "active"
                    /\ goals'[i].status \in TerminalStatuses
         ELSE goals'[i].status = "active"

C25_GoalLifecycle == [][C25_LifecycleStep]_vars

\* A goal is stored, actions were tracked after it and it is still active.
C25_Witness ==
  /\ Len(goals) = 1
  /\ goals[1].status = "active"
  /\ actions # << >>
  /\ goalsProgress # NoProgress

(***************************************************************************)
(* C26.  Whenever track_action returns an error result, the ledger is as   *)
(* it was before the call: the step in which a call ends in an error is    *)
(* the step in which it began, and it changes none of the three tables.    *)
(***************************************************************************)
C26_ErrorStep ==
  \A p \in Procs :
    (result'[p] = "error" /\ result[p] # "error") =>
      /\ pc[p] = "idle"
      /\ UNCHANGED << actions, user_metrics, goals >>

C26_ErrorLeavesLedger == [][C26_ErrorStep]_vars

\* A call returned an error on a ledger that holds records and aggregates.
C26_Witness ==
  /\ result[1] = "error"
  /\ actions # << >>
  /\ user_metrics # << >>

(***************************************************************************)
(* C27.  In every reachable state user_metrics holds at most one row per   *)
(* user, metric type and period.                                           *)
(***************************************************************************)
C27_OneRowPerKey ==
  \A i, j \in 1..Len(user_metrics) :
    ( /\ user_metrics[i].user_id = user_metrics[j].user_id
      /\ user_metrics[i].metric_type = user_metrics[j].metric_type
      /\ user_metrics[i].period = user_metrics[j].period ) => i = j

(***************************************************************************)
(* C28.  For a fixed user and window, tracking one more action never       *)
(* decreases the co2_saved_kg of get_user_impact_summary: the value after  *)
(* a track_action that stored its record is at least the value before it.  *)
(***************************************************************************)
C28_TrackStep ==
  Len(actions') = Len(actions) + 1 =>
    \A u \in Users, d \in PeriodDays :
      actions'[Len(actions')].user_id = u =>
        ImpactSummary(u, d)'.co2_saved_kg >= ImpactSummary(u, d).co2_saved_kg

C28_NeverDecreases == [][C28_TrackStep]_vars

(***************************************************************************)
(* C29.  No ledger operation changes a stored goal after set_user_goal,    *)
(* and every goal get_user_goals_progress returns has current_value 0 and  *)
(* progress_percentage 0, however many actions the user has tracked.       *)
(***************************************************************************)
C29_GoalStep ==
  /\ \A i \in 1..Len(goals) : i <= Len(goals') /\ goals'[i] = goals[i]
  /\ goalsProgress' # NoProgress =>
       \A g \in goalsProgress'.goals :
         g.current_value = 0 /\ g.progress_percentage = 0

C29_GoalsNeverProgress == [][C29_GoalStep]_vars

\* A user with a positive target and two stored actions is reported at 0.
C29_Witness ==
  /\ goalsProgress # NoProgress
  /\ \E g \in goalsProgress.goals : g.target_value > 0 /\ g.progress_percentage = 0
  /\ Cardinality(RowsOf(goalsProgress.user_id)) = MaxCalls

(***************************************************************************)
(* C30.  After a WatsonXClient has been constructed, whatever the outcome  *)
(* of token retrieval and model initialisation, use_fallback is defined    *)
(* and use_fallback = False implies the model object exists; so            *)
(* generate_response calls the external model only where it exists and     *)
(* otherwise answers from the fallback.                                    *)
(***************************************************************************)
C30_ModelWhenNotFallback ==
  /\ use_fallback \in BOOLEAN
  /\ ~use_fallback => model = "ModelInference"
  /\ generation.mode = "model" => model = "ModelInference"
  /\ (generation.mode = "fallback" \/ model = "None") =>
       generation.returned \in { NoText,
                                 FallbackResponse(generation.prompt, generation.context) }

\* A client whose model exists answered from the model.
C30_Witness ==
  /\ ragResult.op = "generate_response"
  /\ ~use_fallback
  /\ model = "ModelInference"
  /\ generation.mode = "model"
  /\ generation.returned.kind = "chars"

(***************************************************************************)
(* C21.  The chunk set of the knowledge index changes only in              *)
(* initialize_vectorstore and add_documents: the query operations never    *)
(* add, remove or alter chunks, whatever state the index is in when they   *)
(* are called.                                                             *)
(***************************************************************************)
C21_QueriesKeepChunks ==
  ragResult.op \in {"retrieve_and_generate", "search_knowledge_base"} =>
    /\ collection = ragResult.before.collection
    /\ persistDir = ragResult.before.persistDir

(***************************************************************************)
(* C22.  When zero chunks were retrieved, generate_answer still returns an *)
(* answer, and that answer is labelled as having no specific sources: it   *)
(* does not open like the answers that quote sources.                      *)
(***************************************************************************)
GroundedHeaders ==
  { "Based on the Climate Action Intelligence Platform documentation:",
    "Here's how to proceed based on the documentation:",
    "Here are the key reasons and benefits:",
    "Technical details from the documentation:",
    "Based on the available documentation:" }

C22_LabelledWithoutSources ==
  (appResult.op = "generate_answer" /\ appResult.retrieved = << >>) =>
    /\ appResult.answer # NoComposed
    /\ appResult.answer.header \notin GroundedHeaders
    /\ ~appResult.answer.blurb

(***************************************************************************)
(* C23.  For every query intent and every list of retrieved chunks, the    *)
(* template answer quotes at most 3 of the chunks, each quote being the    *)
(* chunk's content verbatim when it fits the preview length and otherwise  *)
(* its first 300-400 characters followed by an ellipsis marker.            *)
(***************************************************************************)
C23_QuotesBounded ==
  appResult.op = "generate_answer" =>
    LET quotes == appResult.answer.quotes
    IN  /\ Len(quotes) <= 3
        /\ \A n \in 1..Len(quotes) :
             LET length == appResult.retrieved[quotes[n].doc].length
             IN  \/ quotes[n].chars = length /\ ~quotes[n].ellipsis
                 \/ /\ quotes[n].chars < length
                    /\ quotes[n].chars \in 300..400
                    /\ quotes[n].ellipsis

====
